---- MODULE Spec2Model ----
(***************************************************************************)
(* Model of main.py: green characters raining down in a curses terminal.   *)
(*                                                                         *)
(* Rows (Character.y) and falling speeds are Python floats; they are kept  *)
(* here as exact fixed-point numbers, Den units to one screen row.  int()  *)
(* of a float truncates toward zero and is modelled by PyInt below.          *)
(***************************************************************************)
EXTENDS Integers, Sequences, FiniteSets, TLC

\* ------------------------------------------------------------------ bounds
Den == 2                \* fixed-point units per screen row
MaxY == 2               \* largest screen height (rows) of the animation runs
MaxX == 5               \* largest screen width (cells) of the animation runs
MaxSpeed == 3           \* largest |falling speed| drawn, in units of 1/Den row
MaxSetupColors == 10    \* largest curses.COLORS of the start-up runs
MaxSetupY == 3          \* largest screen height of the start-up runs
MaxSetupX == 10         \* largest screen width of the start-up runs
MaxCalls == 50          \* Column.step calls made on the single-column run

\* Values of curses.COLORS of the animation runs: a terminal that fails the
\* check, one with no green level and one with three.
ColorChoices == {1, 2, 4}

\* Results of screen.getch() tried: no key, or the key q.
KeyChoices == {-1, 113}

\* Values of --min-falling-speed tried, in units of 1/Den row per step.
MinSpeedChoices == {-1, 0, 1}

\* ------------------------------------------------------- program constants
COLOR_BLACK == 0
MaxGreens == 8
FullGreen == 1000
ColumnSpacing == 2
LatinChance == 6        \* default latin_chance 0.6, in tenths

LATIN == 33 .. 126
KATAKANA == 12448 .. 12542
HIRAGANA == 12353 .. 12438
KANGXI == 12032 .. 12244
NON_LATIN == KATAKANA \cup HIRAGANA \cup KANGXI

\* Samples of the random source used where glyphs are drawn for cells;
\* random.random() is sampled in tenths.
RandomSample == {0, 9}
LatinSample == {65}
NonLatinSample == {12450}

\* ---------------------------------------------------------- Python helpers
Min(a, b) == IF a < b THEN a ELSE b

\* int(a / b) for integers a, b with b # 0: float division, then truncation.
TruncDiv(a, b) ==
    IF (a >= 0) = (b > 0) THEN (IF a >= 0 THEN a ELSE -a) \div (IF b > 0 THEN b ELSE -b)
    ELSE -((IF a >= 0 THEN a ELSE -a) \div (IF b > 0 THEN b ELSE -b))

\* int(y) of a row kept in units of 1/Den: truncation toward zero.
PyInt(v) == IF v >= 0 THEN v \div Den ELSE -((-v) \div Den)

\* list(range(start, stop, step)), step # 0
PyRange(start, stop, step) ==
    LET n == IF step > 0
             THEN (IF stop > start THEN (stop - start + step - 1) \div step ELSE 0)
             ELSE (IF start > stop THEN (start - stop - step - 1) \div (-step) ELSE 0)
    IN  [i \in 1 .. n |-> start + (i - 1) * step]

\* --------------------------------------------------------- random_character
\* Mutant: the draw is compared with <= instead of <.
random_character_le(latin_chance, r, a, b, n) ==
    IF r <= latin_chance THEN <<a, b>> ELSE <<n>>

random_character(latin_chance, r, a, b, n) ==
    IF r < latin_chance THEN <<a, b>> ELSE <<n>>

\* Tokens Character.__init__ and Column.reset can draw (default latin_chance).
GlyphDraws ==
    { random_character(LatinChance, r, a, b, n) :
        r \in RandomSample, a \in LatinSample, b \in LatinSample, n \in NonLatinSample }

\* The glyphs drawn for the cells of one column, head first: the draws are
\* sampled among the sequences that repeat with period two.
GlyphRuns(n) ==
    { [i \in 1 .. n |-> IF i % 2 = 1 THEN g1 ELSE g2] : g1 \in GlyphDraws, g2 \in GlyphDraws }

\* Screen cells a token covers: a Latin pair is two narrow characters, a
\* non-Latin glyph is one wide character.
TokenCells(tok) == IF tok[1] \in LATIN THEN Len(tok) ELSE 2 * Len(tok)

\* ------------------------------------------------------------------ Character
Character(start_pos, color, symbol) ==
    [y |-> start_pos[1], x |-> start_pos[2], symbol |-> symbol, color |-> color]

\* ------------------------------------------------------------------ Column
\* Mutant: the cells are laid out below the head instead of above it.
ColumnInitBelow(head, colors, min_falling_speed, width, symbols) ==
    [ min_falling_speed |-> min_falling_speed,
      width |-> width,
      characters |-> [dy1 \in 1 .. Len(colors) |->
          Character(<<head[1] + (dy1 - 1) * Den, head[2]>>, colors[dy1], symbols[dy1])] ]

ColumnInit(head, colors, min_falling_speed, width, symbols) ==
    [ min_falling_speed |-> min_falling_speed,
      width |-> width,
      characters |-> [dy1 \in 1 .. Len(colors) |->
          Character(<<head[1] - (dy1 - 1) * Den, head[2]>>, colors[dy1], symbols[dy1])] ]

\* Mutant: the bottom edge is taken to be a row of the screen.
is_on_screen_inclusive(y, max_y) == 0 <= y /\ y <= max_y

is_on_screen(y, max_y) == 0 <= y /\ y < max_y

\* The draws of the for loop of Column.step, in order.
RECURSIVE StepDraws(_, _, _)
StepDraws(chars, k, max_y) ==
    IF k > Len(chars) THEN <<>>
    ELSE LET y == PyInt(chars[k].y) IN
         (IF is_on_screen(y, max_y)
          THEN << [kind |-> "draw", y |-> y, x |-> chars[k].x,
                   w |-> TokenCells(chars[k].symbol),
                   symbol |-> chars[k].symbol, color |-> chars[k].color] >>
          ELSE <<>>) \o StepDraws(chars, k + 1, max_y)

\* The erasures of the while loop of Column.step, started one row above y.
RECURSIVE StepErases(_, _, _, _)
StepErases(y, x, width, max_y) ==
    IF is_on_screen(y, max_y)
    THEN << [kind |-> "erase", y |-> y, x |-> x, w |-> width,
             symbol |-> <<32>>, color |-> COLOR_BLACK] >>
         \o StepErases(y - 1, x, width, max_y)
    ELSE <<>>

\* Mutant: the rows are not advanced.
ColumnStepNoAdvance(col, max_y) ==
    LET chars == col.characters
        n == Len(chars)
        lastY == IF n = 0 THEN -1 ELSE PyInt(chars[n].y)
        lastX == IF n = 0 THEN -1 ELSE chars[n].x
        draws == StepDraws(chars, 1, max_y)
    IN  [ col |-> col,
          writes |-> draws \o StepErases(lastY - 1, lastX, col.width, max_y),
          still_visible |-> Len(draws) > 0 ]

\* Mutant: the return value tells only whether the head was drawn.
ColumnStepHeadOnly(col, max_y) ==
    LET chars == col.characters
        n == Len(chars)
        lastY == IF n = 0 THEN -1 ELSE PyInt(chars[n].y)
        lastX == IF n = 0 THEN -1 ELSE chars[n].x
        draws == StepDraws(chars, 1, max_y)
    IN  [ col |-> [col EXCEPT !.characters =
                      [k \in 1 .. n |-> [chars[k] EXCEPT !.y = @ + col.min_falling_speed]]],
          writes |-> draws \o StepErases(lastY - 1, lastX, col.width, max_y),
          still_visible |-> n > 0 /\ is_on_screen(PyInt(chars[1].y), max_y) ]

\* Mutant: the erasure starts at the tail's own row.
ColumnStepEraseTail(col, max_y) ==
    LET chars == col.characters
        n == Len(chars)
        lastY == IF n = 0 THEN -1 ELSE PyInt(chars[n].y)
        lastX == IF n = 0 THEN -1 ELSE chars[n].x
        draws == StepDraws(chars, 1, max_y)
    IN  [ col |-> [col EXCEPT !.characters =
                      [k \in 1 .. n |-> [chars[k] EXCEPT !.y = @ + col.min_falling_speed]]],
          writes |-> draws \o StepErases(lastY, lastX, col.width, max_y),
          still_visible |-> Len(draws) > 0 ]

\* Column.step: the column after the call, the writes issued, the return value.
\* The y and the speed are multiples of 1/Den and are added exactly.
ColumnStep(col, max_y) ==
    LET chars == col.characters
        n == Len(chars)
        lastY == IF n = 0 THEN -1 ELSE PyInt(chars[n].y)
        lastX == IF n = 0 THEN -1 ELSE chars[n].x
        draws == StepDraws(chars, 1, max_y)
    IN  [ col |-> [col EXCEPT !.characters =
                      [k \in 1 .. n |-> [chars[k] EXCEPT !.y = @ + col.min_falling_speed]]],
          writes |-> draws \o StepErases(lastY - 1, lastX, col.width, max_y),
          still_visible |-> Len(draws) > 0 ]

\* Mutant: reset rebuilds every cell with the colour of the head.
ColumnResetRecolor(col, new_min_falling_speed, symbols) ==
    [col EXCEPT !.min_falling_speed = new_min_falling_speed,
                !.characters = [dy1 \in 1 .. Len(col.characters) |->
                    [col.characters[dy1] EXCEPT !.y = -(dy1 - 1) * Den,
                                                !.symbol = symbols[dy1],
                                                !.color = col.characters[1].color]]]

\* Mutant: reset forgets to store the new speed.
ColumnResetKeepSpeed(col, new_min_falling_speed, symbols) ==
    [col EXCEPT !.characters = [dy1 \in 1 .. Len(col.characters) |->
                    [col.characters[dy1] EXCEPT !.y = -(dy1 - 1) * Den,
                                                !.symbol = symbols[dy1]]]]

\* Mutant: reset stages the head one row above the top edge.
ColumnResetAbove(col, new_min_falling_speed, symbols) ==
    [col EXCEPT !.min_falling_speed = new_min_falling_speed,
                !.characters = [dy1 \in 1 .. Len(col.characters) |->
                    [col.characters[dy1] EXCEPT !.y = -dy1 * Den,
                                                !.symbol = symbols[dy1]]]]

\* Column.reset
ColumnReset(col, new_min_falling_speed, symbols) ==
    [col EXCEPT !.min_falling_speed = new_min_falling_speed,
                !.characters = [dy1 \in 1 .. Len(col.characters) |->
                    [col.characters[dy1] EXCEPT !.y = -(dy1 - 1) * Den,
                                                !.symbol = symbols[dy1]]]]

\* ------------------------------------------------------------------ Rain
\* dg of generate_green_palette; curses.COLORS = 1 divides by zero.
GreenStep(COLORS) == TruncDiv(FullGreen, Min(MaxGreens, COLORS - 1))

\* Mutant: the range of green components runs down to zero.
GreensToBlack(COLORS) == LET dg == GreenStep(COLORS) IN PyRange(FullGreen, -1, -dg)

\* The green components of the list greens.
Greens(COLORS) == LET dg == GreenStep(COLORS) IN PyRange(FullGreen, dg, -dg)

\* color_pairs before stretching: the handles of pairs 1 .. len(greens).
ColorPairs(COLORS) == [i \in 1 .. Len(Greens(COLORS)) |-> i]

\* color_pairs[middle_index] raises IndexError on an empty list.
PaletteRaises(COLORS, column_height) ==
    \/ COLORS = 1
    \/ COLORS # 1 /\ column_height > 0 /\ Len(Greens(COLORS)) = 0

\* Mutant: the tail slice starts at the midpoint.
GreenPaletteTail(COLORS, column_height) ==
    LET color_pairs == ColorPairs(COLORS)
        middle_index == Len(color_pairs) \div 2
        head == SubSeq(color_pairs, 1, middle_index)
        tail == SubSeq(color_pairs, middle_index + 1, Len(color_pairs))
        middle == [j \in 1 .. column_height |-> color_pairs[middle_index + 1]]
    IN  head \o middle \o tail

\* head + middle + tail of generate_green_palette
GreenPalette(COLORS, column_height) ==
    LET color_pairs == ColorPairs(COLORS)
        middle_index == Len(color_pairs) \div 2
        head == SubSeq(color_pairs, 1, middle_index)
        tail == SubSeq(color_pairs, middle_index + 2, Len(color_pairs))
        middle == [j \in 1 .. column_height |-> color_pairs[middle_index + 1]]
    IN  head \o middle \o tail

\* Mutant: the lower end of the range is taken to be zero.
RandomFallingSpeedsFromZero(m) ==
    { s \in -MaxSpeed .. MaxSpeed : IF m >= 0 THEN 0 <= s /\ s <= 10 * m
                                              ELSE 10 * m <= s /\ s <= 0 }

\* Speeds _random_falling_speed can return: random.uniform(m, 10 m), sampled
\* at the multiples of 1/Den of magnitude at most MaxSpeed.
RandomFallingSpeeds(m) ==
    { s \in -MaxSpeed .. MaxSpeed : IF m >= 0 THEN m <= s /\ s <= 10 * m
                                              ELSE 10 * m <= s /\ s <= m }

\* Mutant: the last slot, at max_x itself, is used too.
ColumnXsInclusive(max_screen_x) ==
    PyRange(0, max_screen_x - ColumnSpacing + 1, ColumnSpacing)

\* Mutant: a column at every x position.
ColumnXsDense(max_screen_x) == PyRange(0, max_screen_x - ColumnSpacing, 1)

\* The x positions of generate_all_columns.
ColumnXs(max_screen_x) == PyRange(0, max_screen_x - ColumnSpacing, ColumnSpacing)

\* ------------------------------------------------------------------ terminal
\* Mutant: the result of the colour-redefinition test is dropped.
terminal_ok_colors_only(t) == ~(t.COLORS < 2 \/ ~t.has_colors)

terminal_ok(t) ==
    LET ok1 == ~(t.COLORS < 2 \/ ~t.has_colors)
    IN  IF ~t.can_change_color THEN FALSE ELSE ok1

\* ------------------------------------------------------------------ state
VARIABLES
    pc,          \* position of the program: main, Rain.step, or "exited"
    term,        \* curses.COLORS, has_colors(), can_change_color()
    maxyx,       \* screen.getmaxyx() = <<rows, columns>>
    min_speed,   \* --min-falling-speed, in units of 1/Den row per step
    registers,   \* colour registers set by curses.init_color; 0 = never set
    rain,        \* the Rain object: created, color_pairs, columns
    screen,      \* what each screen cell <<y, x>> shows
    idx,         \* index of the column the for loop of Rain.step is at
    lastCall,    \* the Column call that completed last
    lastWrites,  \* the screen writes issued by the last action, in order
    ticklog,     \* per column: outcome of this tick and of the previous one
    exitStatus,  \* -1 while running, else the exit status of the process
    key,         \* what the last screen.getch() returned; -1 is no key
    calls,       \* number of Column.step calls on the single-column run
    glyph,       \* the last random_character call made on its own
    floats       \* the rows of one column computed as floats, and its speed

vars == <<pc, term, maxyx, min_speed, registers, rain, screen, idx, lastCall,
          lastWrites, ticklog, exitStatus, key, calls, glyph, floats>>

Blank == [symbol |-> <<32>>, color |-> COLOR_BLACK]
NoCall == [op |-> "none", col |-> 0, ret |-> FALSE, speed |-> 0]
NoRain == [created |-> FALSE, color_pairs |-> <<>>, columns |-> <<>>]
NoLog == [ret |-> "none", resets |-> 0, prev |-> FALSE]
NoGlyph == [latin_chance |-> -1, r |-> -1, token |-> <<>>]
NoFloats == [op |-> "none", speed |-> 0, y |-> <<>>, ret |-> FALSE]

BlankScreen(yx) == [p \in (0 .. yx[1] - 1) \X (0 .. yx[2] - 1) |-> Blank]

\* screen.addstr accepts a write that lies on the screen; curses.error otherwise.
InRange(wr, yx) ==
    /\ 0 <= wr.y /\ wr.y < yx[1]
    /\ 0 <= wr.x /\ wr.x + wr.w <= yx[2]

\* Number of leading writes that are accepted.
RECURSIVE Accepted(_, _, _)
Accepted(writes, k, yx) ==
    IF k > Len(writes) \/ ~InRange(writes[k], yx) THEN k - 1
    ELSE Accepted(writes, k + 1, yx)

\* The screen after the first n writes: a cell shows the last write covering it.
ApplyWrites(scr, writes, n) ==
    [p \in DOMAIN scr |->
        LET hits == { i \in 1 .. n : /\ p[1] = writes[i].y
                                     /\ writes[i].x <= p[2]
                                     /\ p[2] < writes[i].x + writes[i].w }
        IN  IF hits = {} THEN scr[p]
            ELSE LET last == CHOOSE i \in hits : \A j \in hits : j <= i
                 IN  [symbol |-> writes[last].symbol, color |-> writes[last].color]]

Terminals(colors) ==
    [COLORS : colors, has_colors : BOOLEAN, can_change_color : BOOLEAN]

InitWith(terminals, sizes, speeds) ==
    /\ pc = "check"
    /\ term \in terminals
    /\ maxyx \in sizes
    /\ min_speed \in speeds
    /\ registers = [i \in 1 .. MaxGreens |-> 0]
    /\ rain = NoRain
    /\ screen = BlankScreen(maxyx)
    /\ idx = 0
    /\ lastCall = NoCall
    /\ lastWrites = <<>>
    /\ ticklog = <<>>
    /\ exitStatus = -1
    /\ key = -1
    /\ calls = 0
    /\ glyph = NoGlyph
    /\ floats = NoFloats

\* generate_all_columns builds the same columns for an odd width and for the
\* even width after it, so the animation runs take the odd widths.
OddWidths(maxX) == { w \in 1 .. maxX : w % 2 = 1 }

Init == InitWith(Terminals(ColorChoices), (1 .. MaxY) \X OddWidths(MaxX), MinSpeedChoices)

\* ------------------------------------------------------------------ main
\* main: start_color(), then terminal_ok(); sys.exit(1) when it fails.
TerminalCheck ==
    /\ pc = "check"
    /\ IF terminal_ok(term)
       THEN pc' = "create" /\ UNCHANGED exitStatus
       ELSE pc' = "exited" /\ exitStatus' = 1
    /\ lastWrites' = <<>>
    /\ UNCHANGED <<term, maxyx, min_speed, registers, rain, screen, idx, lastCall,
                   ticklog, key, calls, glyph, floats>>

\* r = Rain(screen, time_step_sec, min_falling_speed)
CreateRain ==
    /\ pc = "create"
    /\ rain' = [rain EXCEPT !.created = TRUE]
    /\ pc' = "palette"
    /\ UNCHANGED <<term, maxyx, min_speed, registers, screen, idx, lastCall,
                   lastWrites, ticklog, exitStatus, key, calls, glyph, floats>>

\* r.generate_green_palette(); an uncaught exception ends the process with status 1.
GeneratePalette ==
    /\ pc = "palette"
    /\ IF PaletteRaises(term.COLORS, maxyx[1])
       THEN /\ pc' = "exited"
            /\ exitStatus' = 1
            /\ UNCHANGED <<registers, rain>>
       ELSE /\ registers' = [i \in 1 .. MaxGreens |->
                               IF i <= Len(Greens(term.COLORS))
                               THEN Greens(term.COLORS)[i] ELSE registers[i]]
            /\ rain' = [rain EXCEPT !.color_pairs = GreenPalette(term.COLORS, maxyx[1])]
            /\ pc' = "columns"
            /\ UNCHANGED exitStatus
    /\ UNCHANGED <<term, maxyx, min_speed, screen, idx, lastCall, lastWrites,
                   ticklog, key, calls, glyph, floats>>

\* r.generate_all_columns()
GenerateColumns ==
    /\ pc = "columns"
    /\ LET xs == ColumnXs(maxyx[2])
           n == Len(rain.color_pairs)
       IN  \E speed \in [1 .. Len(xs) -> RandomFallingSpeeds(min_speed)],
              symbols \in [1 .. Len(xs) -> GlyphRuns(n)] :
             /\ rain' = [rain EXCEPT !.columns = [k \in 1 .. Len(xs) |->
                   ColumnInit(<<0, xs[k]>>, rain.color_pairs, speed[k],
                              ColumnSpacing, symbols[k])]]
             /\ ticklog' = [k \in 1 .. Len(xs) |-> NoLog]
    /\ pc' = "poll"
    /\ UNCHANGED <<term, maxyx, min_speed, registers, screen, idx, lastCall,
                   lastWrites, exitStatus, key, calls, glyph, floats>>

\* Mutant: the loop body runs whatever getch returned.
PollIgnoresKey ==
    /\ pc = "poll"
    /\ \E k \in KeyChoices : key' = k
    /\ pc' = IF Len(rain.columns) = 0 THEN "refresh" ELSE "step"
    /\ idx' = 1
    /\ ticklog' = [c \in DOMAIN ticklog |->
          [ret |-> "none", resets |-> 0, prev |-> ticklog[c].resets > 0]]
    /\ lastWrites' = <<>>
    /\ UNCHANGED <<term, maxyx, min_speed, registers, rain, screen, lastCall,
                   exitStatus, calls, glyph, floats>>

\* while screen.getch() == -1: r.step()
Poll ==
    /\ pc = "poll"
    /\ \E k \in KeyChoices :
         /\ key' = k
         /\ IF k # -1
            THEN pc' = "quit" /\ UNCHANGED <<idx, ticklog>>
            ELSE
              /\ pc' = IF Len(rain.columns) = 0 THEN "refresh" ELSE "step"
              /\ idx' = 1
              /\ ticklog' = [c \in DOMAIN ticklog |->
                    [ret |-> "none", resets |-> 0, prev |-> ticklog[c].resets > 0]]
    /\ lastWrites' = <<>>
    /\ UNCHANGED <<term, maxyx, min_speed, registers, rain, screen, lastCall,
                   exitStatus, calls, glyph, floats>>

\* Position of Rain.step after the loop body for column idx.
NextColumn == IF idx < Len(rain.columns) THEN "step" ELSE "refresh"

\* Rain.step: column.step(self.screen) for the column at idx
StepColumn ==
    /\ pc = "step"
    /\ \E r \in {ColumnStep(rain.columns[idx], maxyx[1])} :
       \E ok \in {Accepted(r.writes, 1, maxyx)} :
           /\ screen' = ApplyWrites(screen, r.writes, ok)
           /\ IF ok < Len(r.writes)
              THEN \* curses.error leaves Column.step after the failed write
                   /\ lastWrites' = SubSeq(r.writes, 1, ok + 1)
                   /\ pc' = "exited"
                   /\ exitStatus' = 1
                   /\ UNCHANGED <<idx, lastCall, ticklog>>
              ELSE /\ lastWrites' = r.writes
                   /\ lastCall' = [op |-> "step", col |-> idx, ret |-> r.still_visible,
                                   speed |-> rain.columns[idx].min_falling_speed]
                   /\ ticklog' = [ticklog EXCEPT ![idx].ret =
                                     IF r.still_visible THEN "true" ELSE "false"]
                   /\ pc' = IF r.still_visible THEN NextColumn ELSE "reset"
                   /\ idx' = IF r.still_visible /\ idx < Len(rain.columns)
                             THEN idx + 1 ELSE idx
                   /\ UNCHANGED exitStatus
           /\ rain' = [rain EXCEPT !.columns[idx] = r.col]
    /\ UNCHANGED <<term, maxyx, min_speed, registers, key, calls, glyph, floats>>

\* Rain.step: column.reset(self._random_falling_speed()) for the column at idx
ResetColumn ==
    /\ pc = "reset"
    /\ \E speed \in RandomFallingSpeeds(min_speed),
          symbols \in GlyphRuns(Len(rain.columns[idx].characters)) :
         /\ rain' = [rain EXCEPT !.columns[idx] = ColumnReset(@, speed, symbols)]
         /\ lastCall' = [op |-> "reset", col |-> idx, ret |-> FALSE, speed |-> speed]
    /\ ticklog' = [ticklog EXCEPT ![idx].resets = @ + 1]
    /\ pc' = NextColumn
    /\ idx' = IF idx < Len(rain.columns) THEN idx + 1 ELSE idx
    /\ lastWrites' = <<>>
    /\ UNCHANGED <<term, maxyx, min_speed, registers, screen, exitStatus, key, calls, glyph, floats>>

\* Rain.step: self.screen.refresh(); time.sleep(self.time_step_sec)
Refresh ==
    /\ pc = "refresh"
    /\ pc' = "poll"
    /\ lastWrites' = <<>>
    /\ UNCHANGED <<term, maxyx, min_speed, registers, rain, screen, idx, lastCall,
                   ticklog, exitStatus, key, calls, glyph, floats>>

\* main after the loop: screen.clear(); screen.refresh(); return
Quit ==
    /\ pc = "quit"
    /\ screen' = BlankScreen(maxyx)
    /\ pc' = "exited"
    /\ exitStatus' = 0
    /\ lastWrites' = <<>>
    /\ UNCHANGED <<term, maxyx, min_speed, registers, rain, idx, lastCall,
                   ticklog, key, calls, glyph, floats>>

Next ==
    \/ TerminalCheck
    \/ CreateRain
    \/ GeneratePalette
    \/ GenerateColumns
    \/ Poll
    \/ StepColumn
    \/ ResetColumn
    \/ Refresh
    \/ Quit

Spec == Init /\ [][Next]_vars

\* The animation loop keeps running: main is one thread that is never blocked.
FairSpec == Spec /\ WF_vars(Next)

\* ------------------------------------------------ start-up over wide inputs
InitSetup ==
    InitWith(Terminals(0 .. MaxSetupColors), (1 .. MaxSetupY) \X (1 .. MaxSetupX), {0})

NextSetup ==
    \/ TerminalCheck
    \/ CreateRain
    \/ GeneratePalette
    \/ GenerateColumns

SpecSetup == InitSetup /\ [][NextSetup]_vars

\* ------------------------------------------- one column stepped on its own
\* A column of speed 1.0 as generate_all_columns builds it on a screen of 24
\* rows with curses.COLORS = 3: the palette has 24 entries.
InitScenario ==
    /\ pc = "scenario"
    /\ term = [COLORS |-> 3, has_colors |-> TRUE, can_change_color |-> TRUE]
    /\ maxyx = <<24, 4>>
    /\ min_speed = Den
    /\ registers = [i \in 1 .. MaxGreens |->
                      IF i <= Len(Greens(3)) THEN Greens(3)[i] ELSE 0]
    /\ \E symbols \in GlyphRuns(Len(GreenPalette(3, 24))) :
         rain = [created |-> TRUE, color_pairs |-> GreenPalette(3, 24),
                 columns |-> << ColumnInit(<<0, ColumnXs(4)[1]>>, GreenPalette(3, 24),
                                           Den, ColumnSpacing, symbols) >>]
    /\ screen = BlankScreen(maxyx)
    /\ idx = 1
    /\ lastCall = NoCall
    /\ lastWrites = <<>>
    /\ ticklog = << NoLog >>
    /\ exitStatus = -1
    /\ key = -1
    /\ calls = 0
    /\ glyph = NoGlyph
    /\ floats = NoFloats

\* column.step(screen), called directly
ScenarioStep ==
    /\ pc = "scenario"
    /\ calls < MaxCalls
    /\ \E r \in {ColumnStep(rain.columns[idx], maxyx[1])} :
       \E ok \in {Accepted(r.writes, 1, maxyx)} :
           /\ screen' = ApplyWrites(screen, r.writes, ok)
           /\ IF ok < Len(r.writes)
              THEN /\ lastWrites' = SubSeq(r.writes, 1, ok + 1)
                   /\ pc' = "exited"
                   /\ exitStatus' = 1
                   /\ UNCHANGED <<lastCall, calls>>
              ELSE /\ lastWrites' = r.writes
                   /\ lastCall' = [op |-> "step", col |-> idx, ret |-> r.still_visible,
                                   speed |-> rain.columns[idx].min_falling_speed]
                   /\ calls' = calls + 1
                   /\ UNCHANGED <<pc, exitStatus>>
           /\ rain' = [rain EXCEPT !.columns[idx] = r.col]
    /\ UNCHANGED <<term, maxyx, min_speed, registers, idx, ticklog, key, glyph, floats>>

NextScenario == ScenarioStep

SpecScenario == InitScenario /\ [][NextScenario]_vars

\* --------------------------------------------- random_character on its own
\* Characters tried for random.choice: the ends of every range and one inside.
LatinChoices == {33, 65, 126}
NonLatinChoices == {12032, 12244, 12353, 12438, 12448, 12542}

\* latin_chance values tried, in tenths: 0.0, the default and 1.0.
ChanceChoices == {0, LatinChance, 10}

InitGlyph ==
    InitWith({[COLORS |-> 8, has_colors |-> TRUE, can_change_color |-> TRUE]}, {<<1, 1>>}, {0})

\* random_character(latin_chance), random.random() being r in [0, 1)
DrawGlyph ==
    /\ pc = "check"
    /\ \E latin_chance \in ChanceChoices, r \in 0 .. 9,
          a \in LatinChoices, b \in LatinChoices, n \in NonLatinChoices :
         glyph' = [latin_chance |-> latin_chance, r |-> r,
                   token |-> random_character(latin_chance, r, a, b, n)]
    /\ UNCHANGED <<pc, term, maxyx, min_speed, registers, rain, screen, idx, lastCall,
                   lastWrites, ticklog, exitStatus, key, calls, floats>>

NextGlyph == DrawGlyph

SpecGlyph == InitGlyph /\ [][NextGlyph]_vars

\* --------------------------------------- the rows of one column as floats
\* The animation runs above sample the speeds at the multiples of 1/Den and add
\* them exactly.  Here char.y and the speed are floats: a float is a whole
\* number of units of 1/FloatOne row with at most FloatBits significant bits
\* (53 in the program), and a sum is rounded to the nearest float.
FloatBits == 6
FloatRows == 2
FloatCells == 3
FloatOne == 2 ^ (FloatBits + 1)

\* The distance between neighbouring floats at magnitude m.
RECURSIVE FloatQuantum(_, _)
FloatQuantum(m, q) == IF m < q * 2 ^ FloatBits THEN q ELSE FloatQuantum(m, 2 * q)

\* The float nearest to v, ties to the even significand.
RoundFloat(v) ==
    LET m == IF v < 0 THEN -v ELSE v
        q == FloatQuantum(m, 1)
        lo == (m \div q) * q
        up == IF 2 * (m - lo) > q \/ (2 * (m - lo) = q /\ (m \div q) % 2 = 1)
              THEN lo + q ELSE lo
    IN  IF v < 0 THEN -up ELSE up

\* a + b on floats
FloatAdd(a, b) == RoundFloat(a + b)

\* int(char.y)
FloatRow(v) == IF v >= 0 THEN v \div FloatOne ELSE -((-v) \div FloatOne)

\* Speeds tried: every float from 1/8 row to 2 rows per step.
FloatSpeeds == { s \in FloatOne \div 8 .. 2 * FloatOne : RoundFloat(s) = s }

\* Column.__init__ with head (0, x): cell dy at y = 0 - dy
FloatColumnInit(speed) ==
    [op |-> "init", speed |-> speed,
     y |-> [dy1 \in 1 .. FloatCells |-> -(dy1 - 1) * FloatOne], ret |-> FALSE]

InitFloat ==
    /\ pc = "float"
    /\ term = [COLORS |-> 3, has_colors |-> TRUE, can_change_color |-> TRUE]
    /\ maxyx = <<FloatRows, 4>>
    /\ min_speed = 0
    /\ registers = [i \in 1 .. MaxGreens |-> 0]
    /\ rain = NoRain
    /\ screen = BlankScreen(maxyx)
    /\ idx = 1
    /\ lastCall = NoCall
    /\ lastWrites = <<>>
    /\ ticklog = <<>>
    /\ exitStatus = -1
    /\ key = -1
    /\ calls = 0
    /\ glyph = NoGlyph
    /\ \E speed \in FloatSpeeds : floats = FloatColumnInit(speed)

\* Column.step, the y of every cell and the return value; Rain.step calls it
\* again in the next tick unless it returned false.
FloatColumnStep ==
    /\ pc = "float"
    /\ floats.op = "step" => floats.ret
    /\ floats' = [floats EXCEPT
                    !.op = "step",
                    !.y = [i \in DOMAIN floats.y |-> FloatAdd(floats.y[i], floats.speed)],
                    !.ret = \E i \in DOMAIN floats.y :
                                is_on_screen(FloatRow(floats.y[i]), maxyx[1])]
    /\ UNCHANGED <<pc, term, maxyx, min_speed, registers, rain, screen, idx, lastCall,
                   lastWrites, ticklog, exitStatus, key, calls, glyph>>

\* Column.reset(new_min_falling_speed) after a step that returned false
FloatColumnReset ==
    /\ pc = "float"
    /\ floats.op = "step" /\ ~floats.ret
    /\ \E speed \in FloatSpeeds :
         floats' = [op |-> "reset", speed |-> speed,
                    y |-> [dy1 \in DOMAIN floats.y |-> -(dy1 - 1) * FloatOne],
                    ret |-> FALSE]
    /\ UNCHANGED <<pc, term, maxyx, min_speed, registers, rain, screen, idx, lastCall,
                   lastWrites, ticklog, exitStatus, key, calls, glyph>>

NextFloat ==
    \/ FloatColumnStep
    \/ FloatColumnReset

SpecFloat == InitFloat /\ [][NextFloat]_vars

\* ==================================================================== claims
Columns == rain.columns
Palette == rain.color_pairs
Height == maxyx[1]
Width == maxyx[2]

\* Number of colour levels generate_green_palette has written to the registers.
Levels == Cardinality({ i \in DOMAIN registers : registers[i] # 0 })

\* The terminal-capability check as the documentation states it.
CheckFails == term.COLORS < 2 \/ ~term.has_colors \/ ~term.can_change_color

\* generate_green_palette has returned.
PaletteBuilt == pc \in {"columns", "poll", "step", "reset", "refresh", "quit"}

\* ---- C1: in every column the cell at depth i has the colour palette[i] it got
\* at construction, and the column has one cell per palette entry, whatever
\* steps and resets were made.
C1_ColorsFixed ==
    \A k \in DOMAIN Columns :
        /\ Len(Columns[k].characters) = Len(Palette)
        /\ \A i \in DOMAIN Palette : Columns[k].characters[i].color = Palette[i]

\* A column of several colours was reset in the previous tick and stepped in this one.
C1_Witness ==
    \E k \in DOMAIN Columns :
        /\ ticklog[k].prev /\ ticklog[k].ret = "true"
        /\ \E i, j \in DOMAIN Palette : Palette[i] # Palette[j]

\* ---- C2: right after Column.reset(newSpeed) the column's speed is newSpeed and
\* the cell at depth dy is at row -dy.
C2_ResetRestages ==
    lastCall.op = "reset" =>
        /\ Columns[lastCall.col].min_falling_speed = lastCall.speed
        /\ \A i \in DOMAIN Columns[lastCall.col].characters :
               Columns[lastCall.col].characters[i].y = -(i - 1) * Den

\* A reset that changed the speed of a column of several cells.
C2_Witness ==
    /\ lastCall.op = "reset"
    /\ pc \in {"step", "refresh"}
    /\ Len(Columns[lastCall.col].characters) >= 2
    /\ lastCall.speed > Den

C4_ResetOncePerFalse ==
    /\ \A k \in DOMAIN ticklog :
         /\ ticklog[k].resets =
                IF ticklog[k].ret = "false" /\ ~(pc = "reset" /\ idx = k) THEN 1 ELSE 0
         /\ ~(ticklog[k].prev /\ ticklog[k].ret = "false")
         /\ ~(ticklog[k].prev /\ ticklog[k].resets > 0)
    /\ pc = "reset" =>
         /\ lastCall.op = "step" /\ lastCall.col = idx /\ ~lastCall.ret
         /\ \A i \in DOMAIN lastWrites : lastWrites[i].kind # "draw"

\* The first step after a reset has returned true.
C4_Witness ==
    \E k \in DOMAIN ticklog : ticklog[k].prev /\ ticklog[k].ret = "true"

\* ---- C5 as stated: the column of speed 1.0 on 24 rows with 24 cells is
\* visible for the first 24 steps and the 25th step returns false.
C5_Original ==
    /\ calls \in 1 .. 24 => lastCall.ret
    /\ calls = 25 => ~lastCall.ret

\* ---- C5 as amended: the column of speed 1.0 on 24 rows with 24 cells is
\* visible for the first 47 steps and the 48th step returns false.
C5_Amended ==
    /\ calls \in 1 .. 47 => lastCall.op = "step" /\ lastCall.ret
    /\ calls = 48 => lastCall.op = "step" /\ ~lastCall.ret

\* The 48th step has been made on the 24-cell column of speed 1.0.
C5_Witness ==
    /\ calls = 48
    /\ Height = 24 /\ Len(Columns[1].characters) = 24
    /\ Columns[1].min_falling_speed = Den

\* The x position of column k, the x of its cells.
ColumnX(k) == Columns[k].characters[1].x

\* The columns stand at exactly the positions of xs, one each, with one cell per
\* palette entry, every cell at its column's position.
ColumnsAt(xs) ==
    /\ Len(Columns) = Cardinality(xs)
    /\ { ColumnX(k) : k \in DOMAIN Columns } = xs
    /\ \A k \in DOMAIN Columns :
         /\ Len(Columns[k].characters) = Len(Palette)
         /\ \A i \in DOMAIN Columns[k].characters : Columns[k].characters[i].x = ColumnX(k)

\* ---- C6 as stated: the columns are at the multiples x of the spacing with
\* 0 <= x <= width - spacing.
C6_Original ==
    pc = "poll" =>
        ColumnsAt({ x \in 0 .. Width : x % ColumnSpacing = 0 /\ x <= Width - ColumnSpacing })

\* ---- C6 as amended: the columns are at the multiples x of the spacing with
\* 0 <= x < width - spacing, one each, with one cell per palette entry; a
\* width of 10 gives the four columns 0, 2, 4, 6.
C6_Amended ==
    pc = "poll" =>
        /\ ColumnsAt({ x \in 0 .. Width : x % ColumnSpacing = 0 /\ x < Width - ColumnSpacing })
        /\ Width = 10 => [k \in DOMAIN Columns |-> ColumnX(k)] = <<0, 2, 4, 6>>

\* The columns of a screen 10 cells wide have been generated.
C6_Witness == pc = "poll" /\ Width = 10 /\ Len(Columns) = 4 /\ Len(Palette) >= 2

\* The H entries after the first floor(L/2) are all the midpoint level.
MiddleRun ==
    \A j \in 1 .. Height :
        /\ Levels \div 2 + j \in DOMAIN Palette
        /\ Palette[Levels \div 2 + j] = Levels \div 2 + 1

\* ---- C7 as stated: a built palette has 2*floor(L/2) + H entries, H of them
\* after the first floor(L/2) being the midpoint level.
C7_Original ==
    PaletteBuilt => Len(Palette) = 2 * (Levels \div 2) + Height /\ MiddleRun

\* ---- C7 as amended: a built palette has L >= 1 levels and L - 1 + H entries,
\* H of them after the first floor(L/2) being the midpoint level.
C7_Amended ==
    PaletteBuilt => Levels >= 1 /\ Len(Palette) = Levels - 1 + Height /\ MiddleRun

\* A palette was built from an even number of levels.
C7_Witness == PaletteBuilt /\ Levels = 4 /\ Height >= 2

\* ---- C8: every write Column.step issues is to a row of the screen and to a
\* span of cells of the screen.
C8_WritesInRange ==
    \A i \in DOMAIN lastWrites :
        /\ 0 <= lastWrites[i].y /\ lastWrites[i].y < Height
        /\ 0 <= lastWrites[i].x /\ lastWrites[i].x + lastWrites[i].w <= Width
        /\ lastWrites[i].w = ColumnSpacing

\* A step drew on the bottom row and erased above it, in the last column.
C8_Witness ==
    /\ \E i, j \in DOMAIN lastWrites :
         /\ lastWrites[i].kind = "draw" /\ lastWrites[i].y = Height - 1
         /\ lastWrites[j].kind = "erase"
         /\ lastWrites[i].x = ColumnXs(Width)[Len(ColumnXs(Width))]
    /\ lastCall.speed > Den

\* ---- C9: when the capability check fails the process exits with status 1 and
\* nothing was built, redefined or drawn; a run in which a key was read ends
\* with status 0.
C9_ExitCodes ==
    /\ (CheckFails /\ pc # "check") =>
         /\ pc = "exited" /\ exitStatus = 1
         /\ rain = NoRain
         /\ \A i \in DOMAIN registers : registers[i] = 0
         /\ screen = BlankScreen(maxyx)
         /\ lastWrites = <<>>
    /\ key # -1 => ~CheckFails /\ (pc = "exited" => exitStatus = 0)
    /\ exitStatus = 0 => key # -1

\* A terminal with colours but without colour redefinition was turned away.
C9_Witness ==
    pc = "exited" /\ term.COLORS >= 2 /\ term.has_colors /\ ~term.can_change_color

\* ---- C10: on a terminal that passes the check, generate_green_palette
\* completes and yields at least one colour level and at least H entries.
C10_PaletteNeverFails ==
    (~CheckFails /\ pc \notin {"check", "create", "palette"}) =>
        /\ exitStatus # 1
        /\ Levels >= 1
        /\ Len(Palette) >= Height

\* Every column has been stepped in the tick the log is about.
TickComplete == \A k \in DOMAIN ticklog : ticklog[k].ret # "none"

\* ---- C11: a poll is followed by one whole Rain.step (every column stepped,
\* then the refresh) before the next poll, and once a poll has read a key no
\* column is stepped or reset any more and the program ends.
C11_PollThenWholeStep ==
    /\ [](key # -1 => pc \in {"quit", "exited"})
    /\ [](pc = "refresh" => key = -1 /\ TickComplete)
    /\ [][ /\ pc = "poll" => pc' \in {"step", "refresh", "quit"}
           /\ pc' = "poll" => pc \in {"columns", "refresh"}
           /\ pc' = "refresh" => pc \in {"poll", "step", "reset"}
           /\ key # -1 => (rain' = rain /\ lastCall' = lastCall /\ pc' = "exited") ]_vars

\* A key was read after a whole tick in which a column was reset.
C11_Witness ==
    /\ pc = "quit" /\ key # -1
    /\ Len(Columns) >= 2 /\ TickComplete
    /\ \E k \in DOMAIN ticklog : ticklog[k].resets = 1

\* ---- C12: with minSpeed >= 0 every column's speed lies in
\* [minSpeed, 10 * minSpeed], at construction and after every reset, and
\* Column.step leaves the speed as it was.
C12_SpeedInRange ==
    /\ min_speed >= 0 =>
         \A k \in DOMAIN Columns :
             /\ min_speed <= Columns[k].min_falling_speed
             /\ Columns[k].min_falling_speed <= 10 * min_speed
    /\ lastCall.op = "step" =>
         Columns[lastCall.col].min_falling_speed = lastCall.speed

\* A column that was given a speed above the minimum by a reset has been stepped.
C12_Witness ==
    /\ min_speed > 0
    /\ lastCall.op = "step"
    /\ ticklog[lastCall.col].prev
    /\ Columns[lastCall.col].min_falling_speed > min_speed

\* ---- C13: random_character(1.0) is always a token of two Latin characters
\* and random_character(0.0) always a token of one non-Latin character,
\* whatever random.random() returns in [0, 1).
C13_GlyphKinds ==
    glyph # NoGlyph =>
        /\ glyph.latin_chance = 10 =>
             /\ Len(glyph.token) = 2
             /\ glyph.token[1] \in LATIN /\ glyph.token[2] \in LATIN
        /\ glyph.latin_chance = 0 =>
             /\ Len(glyph.token) = 1
             /\ glyph.token[1] \in NON_LATIN

\* random_character(0.0) was called and random.random() returned 0.0.
C13_Witness == glyph.latin_chance = 0 /\ glyph.r = 0 /\ Len(glyph.token) = 1

\* The truncated row cell i of column k had when the last step of the column
\* looked at it, before advancing it.
RowBefore(k, i) ==
    PyInt(Columns[k].characters[i].y - Columns[k].min_falling_speed)

C15_TrailCleared ==
    (lastCall.op = "step" /\ lastCall.speed > 0) =>
        \A r \in 0 .. Height - 1 :
            r < RowBefore(lastCall.col, Len(Columns[lastCall.col].characters)) =>
                \A x \in ColumnX(lastCall.col) ..
                         ColumnX(lastCall.col) + Columns[lastCall.col].width - 1 :
                    screen[<<r, x>>] = Blank

\* The truncated row of the tail cell of column k in its last step.
TailRow(k) == RowBefore(k, Len(Columns[k].characters))

\* ---- C16: in one Column.step every erased row is strictly above the tail
\* cell's truncated row and every drawn row is at or below it, so no glyph
\* drawn in the step is erased by it.
C16_EraseAboveDraws ==
    lastCall.op = "step" =>
        \A i \in DOMAIN lastWrites :
            /\ lastWrites[i].kind = "erase" => lastWrites[i].y < TailRow(lastCall.col)
            /\ lastWrites[i].kind = "draw" => lastWrites[i].y >= TailRow(lastCall.col)

\* A step at a speed below one row per tick drew the tail and erased above it.
C16_Witness ==
    /\ lastCall.op = "step" /\ lastCall.speed > 0 /\ lastCall.speed < Den
    /\ \E i, j \in DOMAIN lastWrites :
         /\ lastWrites[i].kind = "draw" /\ lastWrites[i].y = TailRow(lastCall.col)
         /\ lastWrites[j].kind = "erase"

\* ---- C17: in one Column.step no two cells of the column are drawn at the same
\* screen row.
C17_OneDrawPerRow ==
    \A i, j \in DOMAIN lastWrites :
        (i # j /\ lastWrites[i].kind = "draw" /\ lastWrites[j].kind = "draw")
            => lastWrites[i].y # lastWrites[j].y

\* The screen columns that column k writes to.
Span(k) == ColumnX(k) .. ColumnX(k) + Columns[k].width - 1

\* ---- C19: the spans [x, x + width) of the columns are pairwise disjoint, and
\* a Column.step or Column.reset of one column leaves every other column's
\* cells and speed unchanged and writes only to screen positions of its own
\* span.
C19_ColumnsIndependent ==
    /\ [](\A j, k \in DOMAIN Columns : j # k => Span(j) \cap Span(k) = {})
    /\ [][ (pc = "step" \/ pc = "reset") =>
           ( /\ \A k \in DOMAIN Columns : k # idx => Columns'[k] = Columns[k]
             /\ \A i \in DOMAIN lastWrites' :
                  \A x \in lastWrites'[i].x .. lastWrites'[i].x + lastWrites'[i].w - 1 :
                      x \in Span(idx)
             /\ \A p \in DOMAIN screen :
                  p[2] \notin Span(idx) => (screen'[p] = screen[p]) ) ]_vars

\* The second column drew and erased while the first column's glyphs were on
\* the screen.
C19_Witness ==
    /\ Len(Columns) >= 2 /\ lastCall.op = "step" /\ lastCall.col = 2
    /\ \E i, j \in DOMAIN lastWrites :
         lastWrites[i].kind = "draw" /\ lastWrites[j].kind = "erase"
    /\ \E p \in DOMAIN screen : p[2] \in Span(1) /\ screen[p] # Blank

\* ---- C20: the colour levels written to the registers are strictly decreasing
\* in green, the first being 1000 and none being 0; a built palette uses only
\* these levels, is non-increasing in green along its index, begins with the
\* brightest level and ends with the darkest.
C20_PaletteDarkens ==
    /\ \A i \in 1 .. Levels : registers[i] > 0
    /\ \A i \in 1 .. Levels - 1 : registers[i] > registers[i + 1]
    /\ Levels >= 1 => registers[1] = FullGreen
    /\ PaletteBuilt =>
         /\ Len(Palette) >= 1
         /\ \A i \in DOMAIN Palette : Palette[i] \in 1 .. Levels
         /\ \A i \in 1 .. Len(Palette) - 1 :
              registers[Palette[i]] >= registers[Palette[i + 1]]
         /\ registers[Palette[1]] = FullGreen
         /\ registers[Palette[Len(Palette)]] = registers[Levels]

\* A palette of seven levels with a run of equal entries in the middle.
C20_Witness == PaletteBuilt /\ Levels = 7 /\ Height >= 2 /\ Len(Palette) = 6 + Height

\* ---- C18: the cells of a column are always exactly one row apart, cell i
\* being i rows above the head: cells[i].y = cells[0].y - i in every state.
C18_UnitSpacing ==
    \A i \in DOMAIN floats.y : floats.y[i] = floats.y[1] - (i - 1) * FloatOne

====
